---- MODULE Spec2Model ----
(***************************************************************************)
(* Ledger and session-state engine of the personal accountant:             *)
(*   src/agent/graph.py   setup wizard, transaction processing, snapshot   *)
(*   src/agent/tools.py   add_transaction / update_balance tools           *)
(*   src/backend/main.py  load_state / save_state, /chat, /ws, /sync       *)
(*                                                                         *)
(* Amounts and balances are exact integers (minor units); texts are        *)
(* sequences of one-character strings.  A request handler is a process of  *)
(* the asyncio event loop: the code between two awaits is one action.      *)
(***************************************************************************)
EXTENDS Integers, Sequences, FiniteSets, TLC

VARIABLES
    db,       \* sessions table: thread id -> persisted state (state_data)
    txrows,   \* transactions table: transaction id -> [thread_id, tx]
    accrows,  \* accounts table: <<thread id, name>> -> [type, balance]
    req,      \* request handlers in flight: process -> [pc, thread, st, calls]
    clock,    \* wall clock, in months since January of year 0
    llm,      \* call_openrouter in flight: process -> [pc, tools, model_index,
              \* attempts, response]
    cache,    \* the globals _checkpointer and _compiled_graph, and the numbers
              \* of connections opened and graphs compiled so far
    getter    \* get_compiled_graph in flight: process -> [pc, graph]

vars == <<db, txrows, accrows, req, clock, llm, cache, getter>>

----------------------------------------------------------------------------
(* Bounds of the model *)

\* most transaction ids in existence
MaxTx == 2
\* most chat turns of a thread after its setup is complete
MaxTurns == 2
\* the last month the wall clock reaches (12 is January of year 1)
MaxClock == 12

\* longest dependents answer tried
MaxLen == 3

----------------------------------------------------------------------------
(* Texts *)

Digits == {"0", "1", "2", "3", "4", "5", "6", "7", "8", "9"}

DigitVal(c) ==
    CASE c = "0" -> 0 [] c = "1" -> 1 [] c = "2" -> 2 [] c = "3" -> 3
      [] c = "4" -> 4 [] c = "5" -> 5 [] c = "6" -> 6 [] c = "7" -> 7
      [] c = "8" -> 8 [] c = "9" -> 9

\* re.search(r'\d+', answer): index of the first digit, 0 when there is none
FirstDigitPos(text) ==
    IF \E i \in 1..Len(text) : text[i] \in Digits
    THEN CHOOSE i \in 1..Len(text) :
            /\ text[i] \in Digits
            /\ \A j \in 1..(i - 1) : text[j] \notin Digits
    ELSE 0

RECURSIVE DigitRun(_, _, _)
\* int() of the maximal run of digits of text that starts at position i
DigitRun(text, i, acc) ==
    IF i > Len(text) \/ text[i] \notin Digits
    THEN acc
    ELSE DigitRun(text, i + 1, 10 * acc + DigitVal(text[i]))

\* int(answer) when the whole answer is a number, 0 otherwise
ParseDependentsWholeText(answer) ==
    IF answer # <<>> /\ \A i \in 1..Len(answer) : answer[i] \in Digits
    THEN DigitRun(answer, 1, 0)
    ELSE 0

\* int(re.search(r'\d+', answer).group()) if re.search(r'\d+', answer) else 0
ParseDependents(answer) ==
    IF FirstDigitPos(answer) = 0
    THEN 0
    ELSE DigitRun(answer, FirstDigitPos(answer), 0)

RECURSIVE Strip(_)
\* str.strip() for the blank character
Strip(s) ==
    IF s = <<>> THEN <<>>
    ELSE IF Head(s) = " " THEN Strip(Tail(s))
    ELSE IF s[Len(s)] = " " THEN Strip(SubSeq(s, 1, Len(s) - 1))
    ELSE s

RECURSIVE SplitComma(_, _)
\* [s.strip() for s in answer.split(",")]; cur is the piece being read
SplitComma(text, cur) ==
    IF text = <<>> THEN <<Strip(cur)>>
    ELSE IF Head(text) = "," THEN <<Strip(cur)>> \o SplitComma(Tail(text), <<>>)
    ELSE SplitComma(Tail(text), Append(cur, Head(text)))

\* re.sub(r'[^\d.]', '', answer)
KeepNumeric(answer) ==
    SelectSeq(answer, LAMBDA c : c \in Digits \/ c = ".")

RECURSIVE Normalise(_, _)
\* the decimal m / 10^k without trailing zeros of the fraction
Normalise(m, k) ==
    IF k > 0 /\ m % 10 = 0 THEN Normalise(m \div 10, k - 1) ELSE <<m, k>>

\* float(num) if num else 0.0, and 0.0 when float() raises; the value is the
\* pair <<m, k>> standing for m / 10^k
ParseIncome(answer) ==
    LET num  == KeepNumeric(answer)
        dots == {i \in 1..Len(num) : num[i] = "."}
    IN  IF num = <<>> THEN <<0, 0>>
        ELSE IF Cardinality(dots) > 1 \/ Cardinality(dots) = Len(num)
        THEN <<0, 0>>
        ELSE LET p == IF dots = {} THEN Len(num) + 1 ELSE CHOOSE i \in dots : TRUE
                 ds == SelectSeq(num, LAMBDA c : c \in Digits)
             IN  Normalise(DigitRun(ds, 1, 0), Len(num) - p + (IF dots = {} THEN 1 ELSE 0))

----------------------------------------------------------------------------
(* Thread state *)

\* the empty dict
EmptyMap == [x \in {} |-> x]

SETUP_QUESTIONS ==
    << "tax residency", "filing status", "dependents", "income sources",
       "annual income", "retirement accounts", "investment accounts",
       "primary bank" >>

\* the snapshot of create_default_state
ZeroSnapshot ==
    [ total_cash |-> 0, total_investments |-> 0, total_liabilities |-> 0,
      net_worth |-> 0, ytd_income |-> 0, ytd_expenses |-> 0,
      estimated_tax_liability |-> 0, monthly_burn_rate |-> 0 ]

\* create_default_state(); user_profile None is the empty sequence
DefaultState(now) ==
    [ messages     |-> <<>>,
      user_profile |-> <<>>,
      transactions |-> <<>>,
      accounts     |-> EmptyMap,
      snapshot     |-> ZeroSnapshot,
      setup_step   |-> 0,
      last_updated |-> now ]

\* the profile handle_setup starts from when the state has none
EmptyProfile ==
    [ tax_residency |-> <<>>, filing_status |-> <<>>, dependents |-> 0,
      income_sources |-> <<>>, annual_income_estimate |-> <<0, 0>>,
      retirement_accounts |-> <<>>, investment_accounts |-> <<>>,
      primary_bank |-> <<>>, setup_complete |-> FALSE ]

UserMsg(text) == [role |-> "user", content |-> text]
AssistantMsg(content) == [role |-> "assistant", content |-> content]

\* dict assignment d[k] = v
Put(d, k, v) == [x \in DOMAIN d \cup {k} |-> IF x = k THEN v ELSE d[x]]

----------------------------------------------------------------------------
(* Snapshot calculator *)

Year(now) == now \div 12
Month(now) == (now % 12) + 1

\* str.lower() on the letters account names are written with
LowerChar(c) ==
    CASE c = "C" -> "c" [] c = "F" -> "f" [] c = "I" -> "i" [] c = "S" -> "s"
      [] c = "T" -> "t" [] c = "O" -> "o" [] c = "K" -> "k"
      [] OTHER -> c

Lower(name) == [i \in 1..Len(name) |-> LowerChar(name[i])]

\* kw in s
Contains(s, kw) ==
    \E i \in 0..(Len(s) - Len(kw)) : SubSeq(s, i + 1, i + Len(kw)) = kw

\* the keyword test without lower()
IsInvestmentNameCaseSensitive(name) ==
    \/ Contains(name, <<"i", "n", "v", "e", "s", "t">>)
    \/ Contains(name, <<"s", "t", "o", "c", "k">>)
    \/ Contains(name, <<"c", "r", "y", "p", "t", "o">>)

\* "invest" in name.lower() or "stock" in name.lower() or "crypto" in name.lower()
IsInvestmentName(name) ==
    \/ Contains(Lower(name), <<"i", "n", "v", "e", "s", "t">>)
    \/ Contains(Lower(name), <<"s", "t", "o", "c", "k">>)
    \/ Contains(Lower(name), <<"c", "r", "y", "p", "t", "o">>)

RECURSIVE SumBalances(_, _)
\* the sum of the balances of the accounts named in S
SumBalances(accounts, S) ==
    IF S = {} THEN 0
    ELSE LET n == CHOOSE x \in S : TRUE
         IN  accounts[n].balance + SumBalances(accounts, S \ {n})

RECURSIVE SumAmountsAllYears(_, _, _)
\* the sum of the amounts of the transactions of category cat of every year
SumAmountsAllYears(txs, cat, year) ==
    IF txs = <<>> THEN 0
    ELSE (IF Head(txs).category = cat THEN Head(txs).amount ELSE 0)
         + SumAmountsAllYears(Tail(txs), cat, year)

RECURSIVE SumAmounts(_, _, _)
\* the sum of the amounts of the transactions of category cat dated in year
SumAmounts(txs, cat, year) ==
    IF txs = <<>> THEN 0
    ELSE (IF Year(Head(txs).timestamp) = year /\ Head(txs).category = cat
          THEN Head(txs).amount ELSE 0)
         + SumAmounts(Tail(txs), cat, year)

\* calculate_snapshot with the tax estimate of a negative taxable income kept
CalculateSnapshotNoFloor(st, now) ==
    LET names == DOMAIN st.accounts
        assets == {n \in names : st.accounts[n].type = "asset"}
        total_investments ==
            SumBalances(st.accounts, {n \in assets : IsInvestmentName(n)})
        total_cash ==
            SumBalances(st.accounts, {n \in assets : ~IsInvestmentName(n)})
        total_liabilities ==
            SumBalances(st.accounts, {n \in names : st.accounts[n].type = "liability"})
        ytd_income == SumAmounts(st.transactions, "income", Year(now))
        ytd_expenses == SumAmounts(st.transactions, "expense", Year(now))
    IN  [ total_cash |-> total_cash,
          total_investments |-> total_investments,
          total_liabilities |-> total_liabilities,
          net_worth |-> total_cash + total_investments - total_liabilities,
          ytd_income |-> ytd_income,
          ytd_expenses |-> ytd_expenses,
          estimated_tax_liability |-> 22 * (10 * ytd_income - ytd_expenses),
          monthly_burn_rate |-> (ytd_expenses * 27720) \div Month(now) ]

\* calculate_snapshot(state) at wall-clock time now.  estimated_tax_liability is
\* held in thousandths and monthly_burn_rate in 1/27720ths (27720 = lcm(1..12)),
\* so that both stay exact integers.
CalculateSnapshot(st, now) ==
    LET names == DOMAIN st.accounts
        assets == {n \in names : st.accounts[n].type = "asset"}
        total_investments ==
            SumBalances(st.accounts, {n \in assets : IsInvestmentName(n)})
        total_cash ==
            SumBalances(st.accounts, {n \in assets : ~IsInvestmentName(n)})
        total_liabilities ==
            SumBalances(st.accounts, {n \in names : st.accounts[n].type = "liability"})
        ytd_income == SumAmounts(st.transactions, "income", Year(now))
        ytd_expenses == SumAmounts(st.transactions, "expense", Year(now))
        taxable10 == 10 * ytd_income - ytd_expenses
    IN  [ total_cash |-> total_cash,
          total_investments |-> total_investments,
          total_liabilities |-> total_liabilities,
          net_worth |-> total_cash + total_investments - total_liabilities,
          ytd_income |-> ytd_income,
          ytd_expenses |-> ytd_expenses,
          estimated_tax_liability |-> IF taxable10 > 0 THEN 22 * taxable10 ELSE 0,
          monthly_burn_rate |-> (ytd_expenses * 27720) \div Month(now) ]

----------------------------------------------------------------------------
(* Setup wizard *)

\* the answers stored as the code stores them, setup_complete set one step early
StoreAnswerCompleteEarly(profile, setup_step, answer) ==
    CASE setup_step = 0 -> [profile EXCEPT !.tax_residency = answer]
      [] setup_step = 1 -> [profile EXCEPT !.filing_status = answer]
      [] setup_step = 2 -> [profile EXCEPT !.dependents = ParseDependents(answer)]
      [] setup_step = 3 -> [profile EXCEPT !.income_sources = SplitComma(answer, <<>>)]
      [] setup_step = 4 -> [profile EXCEPT !.annual_income_estimate = ParseIncome(answer)]
      [] setup_step = 5 -> [profile EXCEPT !.retirement_accounts = SplitComma(answer, <<>>)]
      [] setup_step = 6 -> [profile EXCEPT !.investment_accounts = SplitComma(answer, <<>>),
                                           !.setup_complete = TRUE]
      [] setup_step = 7 -> [profile EXCEPT !.primary_bank = answer]
      [] OTHER -> profile

\* the profile with the answer of step setup_step stored (lines 261-285)
StoreAnswer(profile, setup_step, answer) ==
    CASE setup_step = 0 -> [profile EXCEPT !.tax_residency = answer]
      [] setup_step = 1 -> [profile EXCEPT !.filing_status = answer]
      [] setup_step = 2 -> [profile EXCEPT !.dependents = ParseDependents(answer)]
      [] setup_step = 3 -> [profile EXCEPT !.income_sources = SplitComma(answer, <<>>)]
      [] setup_step = 4 -> [profile EXCEPT !.annual_income_estimate = ParseIncome(answer)]
      [] setup_step = 5 -> [profile EXCEPT !.retirement_accounts = SplitComma(answer, <<>>)]
      [] setup_step = 6 -> [profile EXCEPT !.investment_accounts = SplitComma(answer, <<>>)]
      [] setup_step = 7 -> [profile EXCEPT !.primary_bank = answer,
                                           !.setup_complete = TRUE]
      [] OTHER -> profile

\* handle_setup that does not advance when the dependents answer has no number
HandleSetupStuckOnDefault(st) ==
    LET messages == st.messages
        answer == messages[Len(messages)].content
        profile == IF st.user_profile # <<>> THEN st.user_profile[1] ELSE EmptyProfile
    IN  IF st.setup_step = 2 /\ FirstDigitPos(answer) = 0
        THEN [st EXCEPT !.messages = Append(messages,
                            AssistantMsg(<<"Got it!", SETUP_QUESTIONS[3]>>))]
        ELSE [st EXCEPT
                !.user_profile = <<StoreAnswer(profile, st.setup_step, answer)>>,
                !.setup_step = st.setup_step + 1,
                !.messages = Append(messages, AssistantMsg(<<"Got it!">>))]

\* handle_setup(state)
HandleSetup(st) ==
    LET setup_step == st.setup_step
        messages == st.messages
        N == Len(SETUP_QUESTIONS)
    IN  IF setup_step < N
        THEN IF messages # <<>> /\ messages[Len(messages)].role = "user"
             THEN LET user_profile ==
                          IF st.user_profile # <<>> THEN st.user_profile[1]
                          ELSE EmptyProfile
                      answer == messages[Len(messages)].content
                      reply ==
                          IF setup_step + 1 < N
                          THEN <<"Got it!", SETUP_QUESTIONS[setup_step + 2]>>
                          ELSE <<"Setup complete!">>
                  IN  [st EXCEPT
                         !.user_profile = <<StoreAnswer(user_profile, setup_step, answer)>>,
                         !.setup_step = setup_step + 1,
                         !.messages = Append(messages, AssistantMsg(reply))]
             ELSE [st EXCEPT
                     !.messages = Append(messages,
                         AssistantMsg(<<"Welcome", SETUP_QUESTIONS[1]>>))]
        ELSE st

\* should_setup that looks at the presence of the profile only
ShouldSetupProfileAbsent(st) == st.user_profile = <<>>

\* should_setup(state) = "setup"
ShouldSetup(st) ==
    IF st.user_profile = <<>> THEN TRUE ELSE ~st.user_profile[1].setup_complete

----------------------------------------------------------------------------
(* Transaction processing *)

Ids(txs) == {txs[i].id : i \in 1..Len(txs)}

\* ids of transactions that exist anywhere: persisted or held by a handler
UsedIds ==
    DOMAIN txrows
    \cup UNION {Ids(db[t].transactions) : t \in DOMAIN db}
    \cup UNION {Ids(req[p].st.transactions) : p \in {q \in DOMAIN req : req[q].pc # "idle"}}

\* str(uuid.uuid4()): an id no transaction has yet (the least such number)
FreshId ==
    CHOOSE i \in 1..(Cardinality(UsedIds) + 1) :
        /\ i \notin UsedIds
        /\ \A j \in 1..(i - 1) : j \in UsedIds

\* the add_transaction tool: always succeeds, whatever the amount
AddTransactionTool(args, id, now) ==
    [ success |-> TRUE,
      transaction |->
        [ id |-> id, timestamp |-> now, amount |-> args.amount,
          account_from |-> args.account_from, account_to |-> args.account_to,
          category |-> args.category ] ]

\* the update_balance tool
UpdateBalanceTool(args, now) ==
    [ success |-> TRUE,
      account |-> [ type |-> args.account_type, balance |-> args.new_balance,
                    updated_at |-> now ] ]

\* an account created on its first use by a transaction
NewAccount(type) == [type |-> type, balance |-> 0, updated_at |-> -1]

\* add_transaction that computes both new balances from the balances read before
\* the posting: with account_from = account_to the debit is overwritten
ApplyAddTransactionStaleRead(st, args, id, now) ==
    LET from_acc == args.account_from
        to_acc == args.account_to
        a1 == IF from_acc \notin DOMAIN st.accounts
              THEN Put(st.accounts, from_acc, NewAccount("asset"))
              ELSE st.accounts
        a2 == IF to_acc \notin DOMAIN a1
              THEN Put(a1, to_acc,
                       NewAccount(IF args.category = "expense" THEN "expense" ELSE "asset"))
              ELSE a1
        a3 == [a2 EXCEPT ![from_acc].balance = a2[from_acc].balance - args.amount]
        a4 == [a3 EXCEPT ![to_acc].balance = a2[to_acc].balance + args.amount]
    IN  [st EXCEPT
           !.transactions = Append(@, AddTransactionTool(args, id, now).transaction),
           !.accounts = a4]

\* add_transaction that credits account_to and forgets the debit
ApplyAddTransactionCreditOnly(st, args, id, now) ==
    LET from_acc == args.account_from
        to_acc == args.account_to
        a1 == IF from_acc \notin DOMAIN st.accounts
              THEN Put(st.accounts, from_acc, NewAccount("asset"))
              ELSE st.accounts
        a2 == IF to_acc \notin DOMAIN a1
              THEN Put(a1, to_acc,
                       NewAccount(IF args.category = "expense" THEN "expense" ELSE "asset"))
              ELSE a1
    IN  [st EXCEPT
           !.transactions = Append(@, AddTransactionTool(args, id, now).transaction),
           !.accounts = [a2 EXCEPT ![to_acc].balance = @ + args.amount]]

\* add_transaction that types account_to by the category also when the account
\* exists
ApplyAddTransactionCategoryType(st, args, id, now) ==
    LET from_acc == args.account_from
        to_acc == args.account_to
        ty == IF args.category = "expense" THEN "expense" ELSE "asset"
        a1 == IF from_acc \notin DOMAIN st.accounts
              THEN Put(st.accounts, from_acc, NewAccount("asset"))
              ELSE st.accounts
        a2 == IF to_acc \notin DOMAIN a1
              THEN Put(a1, to_acc, NewAccount(ty))
              ELSE [a1 EXCEPT ![to_acc].type = ty]
        a3 == [a2 EXCEPT ![from_acc].balance = @ - args.amount]
        a4 == [a3 EXCEPT ![to_acc].balance = @ + args.amount]
    IN  [st EXCEPT
           !.transactions = Append(@, AddTransactionTool(args, id, now).transaction),
           !.accounts = a4]

\* the add_transaction branch of process_message (lines 384-402)
ApplyAddTransaction(st, args, id, now) ==
    LET result == AddTransactionTool(args, id, now)
        from_acc == args.account_from
        to_acc == args.account_to
        amount == args.amount
        a1 == IF from_acc \notin DOMAIN st.accounts
              THEN Put(st.accounts, from_acc, NewAccount("asset"))
              ELSE st.accounts
        a2 == IF to_acc \notin DOMAIN a1
              THEN Put(a1, to_acc,
                       NewAccount(IF args.category = "expense" THEN "expense" ELSE "asset"))
              ELSE a1
        a3 == [a2 EXCEPT ![from_acc].balance = @ - amount]
        a4 == [a3 EXCEPT ![to_acc].balance = @ + amount]
    IN  IF result.success
        THEN [st EXCEPT !.transactions = Append(@, result.transaction),
                        !.accounts = a4]
        ELSE st

\* the update_balance branch of process_message (lines 404-408)
ApplyUpdateBalance(st, args, now) ==
    LET result == UpdateBalanceTool(args, now)
    IN  IF result.success
        THEN [st EXCEPT !.accounts = Put(@, args.account_name, result.account)]
        ELSE st

\* one iteration of the tool-call loop of process_message (lines 378-417)
ApplyToolCall(st, call, id, now) ==
    CASE call.name = "add_transaction" -> ApplyAddTransaction(st, call, id, now)
      [] call.name = "update_balance" -> ApplyUpdateBalance(st, call, now)
      [] OTHER -> st

\* the end of process_message (lines 431-447)
FinishProcess(st, now) ==
    [st EXCEPT !.snapshot = CalculateSnapshot(st, now),
               !.messages = Append(@, AssistantMsg(<<"reply">>)),
               !.last_updated = now]

----------------------------------------------------------------------------
(* Persistence and sync merge *)

\* load_state(thread_id) or create_default_state()
LoadOrCreate(t, now) == IF t \in DOMAIN db THEN db[t] ELSE DefaultState(now)

\* the transactions table after save_state: INSERT OR REPLACE by id
SavedTxRows(t, st) ==
    [id \in DOMAIN txrows \cup Ids(st.transactions) |->
        IF id \in Ids(st.transactions)
        THEN [ thread_id |-> t,
               tx |-> LET last == CHOOSE i \in 1..Len(st.transactions) :
                                     /\ st.transactions[i].id = id
                                     /\ \A j \in (i + 1)..Len(st.transactions) :
                                           st.transactions[j].id # id
                      IN  st.transactions[last] ]
        ELSE txrows[id]]

\* the accounts table after save_state: INSERT OR REPLACE by (thread_id, name)
SavedAccRows(t, st) ==
    [k \in DOMAIN accrows \cup {<<t, n>> : n \in DOMAIN st.accounts} |->
        IF k[1] = t /\ k[2] \in DOMAIN st.accounts
        THEN [type |-> st.accounts[k[2]].type, balance |-> st.accounts[k[2]].balance]
        ELSE accrows[k]]

\* a merge that appends every incoming transaction
MergeTransactionsAppendAll(txs, incoming, existing_ids) == txs \o incoming

\* a merge that puts the new incoming transactions before the history
MergeTransactionsNewestFirst(txs, incoming, existing_ids) ==
    SelectSeq(incoming, LAMBDA tx : tx.id \notin existing_ids) \o txs

RECURSIVE MergeTransactions(_, _, _)
\* the loop of lines 350-352; existing_ids is computed once, before the loop
MergeTransactions(txs, incoming, existing_ids) ==
    IF incoming = <<>> THEN txs
    ELSE MergeTransactions(
            IF Head(incoming).id \notin existing_ids
            THEN Append(txs, Head(incoming)) ELSE txs,
            Tail(incoming), existing_ids)

\* a merge that keeps the record of an account the state already has
MergeAccountsKeepExisting(accounts, incoming) ==
    [n \in DOMAIN accounts \cup DOMAIN incoming |->
        IF n \in DOMAIN accounts THEN accounts[n] ELSE incoming[n]]

\* the loop of lines 355-356
MergeAccounts(accounts, incoming) ==
    [n \in DOMAIN accounts \cup DOMAIN incoming |->
        IF n \in DOMAIN incoming THEN incoming[n] ELSE accounts[n]]

\* a merge that also posts the first appended transaction to the balances
SyncMergePostsBalances(st, txs, accs, now) ==
    LET new == SelectSeq(txs, LAMBDA tx : tx.id \notin Ids(st.transactions))
        posted == IF new = <<>> THEN st.accounts
                  ELSE ApplyAddTransaction(st, new[1], new[1].id, now).accounts
        merged == [st EXCEPT
                     !.transactions = MergeTransactions(@, txs, Ids(st.transactions)),
                     !.accounts = MergeAccounts(posted, accs)]
    IN  [merged EXCEPT !.snapshot = CalculateSnapshot(merged, now),
                       !.last_updated = now]

\* sync_data between load_state and save_state (lines 348-360)
SyncMerge(st, txs, accs, now) ==
    LET merged == [st EXCEPT
                     !.transactions = MergeTransactions(@, txs, Ids(st.transactions)),
                     !.accounts = MergeAccounts(@, accs)]
    IN  [merged EXCEPT !.snapshot = CalculateSnapshot(merged, now),
                       !.last_updated = now]

----------------------------------------------------------------------------
(* Request handlers *)

Idle == [pc |-> "idle", thread |-> "", st |-> DefaultState(0), calls |-> <<>>]

\* the adds among the tool calls
Adds(calls) == SelectSeq(calls, LAMBDA c : c.name = "add_transaction")

\* a chat handler that runs the graph on a new thread before the inbound
\* message is appended
ChatLoadGreetsFirst(p, t, text) ==
    /\ req[p].pc = "idle"
    /\ LET loaded == LoadOrCreate(t, clock)
       IN  /\ ShouldSetup(loaded)
              \/ Len(loaded.messages) < 2 * (Len(SETUP_QUESTIONS) + MaxTurns)
           /\ req' = [req EXCEPT ![p] =
                  [ pc |-> "loaded", thread |-> t,
                    st |-> IF t \in DOMAIN db
                           THEN [loaded EXCEPT !.messages = Append(@, UserMsg(text))]
                           ELSE loaded,
                    calls |-> <<>> ]]
    /\ UNCHANGED <<db, txrows, accrows, clock, llm, cache, getter>>

\* chat / websocket_endpoint up to the first await: load or create the state and
\* append the user message (main.py lines 208-217, 432-440)
ChatLoad(p, t, text) ==
    /\ req[p].pc = "idle"
    /\ LET loaded == LoadOrCreate(t, clock)
       IN  /\ ShouldSetup(loaded)
              \/ Len(loaded.messages) < 2 * (Len(SETUP_QUESTIONS) + MaxTurns)
           /\ req' = [req EXCEPT ![p] =
                  [ pc |-> "loaded", thread |-> t,
                    st |-> [loaded EXCEPT !.messages = Append(@, UserMsg(text))],
                    calls |-> <<>> ]]
    /\ UNCHANGED <<db, txrows, accrows, clock, llm, cache, getter>>

\* graph.ainvoke routed to the setup node
SetupNode(p) ==
    /\ req[p].pc = "loaded"
    /\ ShouldSetup(req[p].st)
    /\ req' = [req EXCEPT ![p].pc = "invoked", ![p].st = HandleSetup(@)]
    /\ UNCHANGED <<db, txrows, accrows, clock, llm, cache, getter>>

\* graph.ainvoke routed to the process node: process_message up to the answer of
\* the first model call, which carries the tool calls (lines 312-374)
ProcessStart(p, calls) ==
    /\ req[p].pc = "loaded"
    /\ ~ShouldSetup(req[p].st)
    /\ Cardinality(UsedIds) + Len(Adds(calls)) <= MaxTx
    /\ req' = [req EXCEPT ![p].pc = "tools",
                          ![p].st.snapshot = CalculateSnapshot(req[p].st, clock),
                          ![p].calls = calls]
    /\ UNCHANGED <<db, txrows, accrows, clock, llm, cache, getter>>

\* one tool call executed (lines 378-425)
ExecTool(p) ==
    /\ req[p].pc = "tools"
    /\ req[p].calls # <<>>
    /\ req' = [req EXCEPT
                 ![p].st = ApplyToolCall(@, Head(req[p].calls), FreshId, clock),
                 ![p].calls = Tail(@)]
    /\ UNCHANGED <<db, txrows, accrows, clock, llm, cache, getter>>

\* the tool calls are done: final answer, snapshot, last_updated (lines 427-447)
ProcessFinish(p) ==
    /\ req[p].pc = "tools"
    /\ req[p].calls = <<>>
    /\ req' = [req EXCEPT ![p].pc = "invoked", ![p].st = FinishProcess(@, clock)]
    /\ UNCHANGED <<db, txrows, accrows, clock, llm, cache, getter>>

\* a failing turn whose handler saves the state it has reached
TurnFailSaves(p) ==
    /\ \/ req[p].pc = "loaded" /\ ~ShouldSetup(req[p].st)
       \/ req[p].pc = "tools"
    /\ db' = Put(db, req[p].thread, req[p].st)
    /\ txrows' = txrows
    /\ accrows' = accrows
    /\ req' = [req EXCEPT ![p] = Idle]
    /\ UNCHANGED <<clock, llm, cache, getter>>

\* a model call or a tool call raises inside process_message: the handler ends
\* without save_state (main.py lines 239-240)
TurnFail(p) ==
    /\ \/ req[p].pc = "loaded" /\ ~ShouldSetup(req[p].st)
       \/ req[p].pc = "tools"
    /\ req' = [req EXCEPT ![p] = Idle]
    /\ UNCHANGED <<db, txrows, accrows, clock, llm, cache, getter>>

\* save_state(thread_id, result) and the response (main.py lines 227-238)
ChatSave(p) ==
    /\ req[p].pc = "invoked"
    /\ db' = Put(db, req[p].thread, req[p].st)
    /\ txrows' = SavedTxRows(req[p].thread, req[p].st)
    /\ accrows' = SavedAccRows(req[p].thread, req[p].st)
    /\ req' = [req EXCEPT ![p] = Idle]
    /\ UNCHANGED <<clock, llm, cache, getter>>

\* the keys of a transaction that calculate_snapshot and save_state read
TxKeys == {"id", "timestamp", "amount", "account_from", "account_to", "category"}

\* sync_data raises before save_state commits: tx["id"] of an incoming
\* transaction (line 351), a key of an appended transaction or of an incoming
\* account that calculate_snapshot or save_state reads (lines 359, 362)
SyncRaises(st, txs, accs) ==
    IF \E i \in 1..Len(txs) : "id" \notin DOMAIN txs[i]
    THEN TRUE
    ELSE \/ \E i \in 1..Len(txs) :
              /\ txs[i].id \notin Ids(st.transactions)
              /\ ~(TxKeys \subseteq DOMAIN txs[i])
         \/ \E n \in DOMAIN accs : ~({"type", "balance"} \subseteq DOMAIN accs[n])

\* sync_data: no await between load_state and save_state (main.py lines 338-369)
SyncData(t, txs, accs) ==
    /\ ~SyncRaises(LoadOrCreate(t, clock), txs, accs)
    /\ Cardinality(UsedIds \cup Ids(txs)) <= MaxTx
    /\ LET state == SyncMerge(LoadOrCreate(t, clock), txs, accs, clock)
       IN  /\ db' = Put(db, t, state)
           /\ txrows' = SavedTxRows(t, state)
           /\ accrows' = SavedAccRows(t, state)
    /\ UNCHANGED <<req, clock, llm, cache, getter>>

\* a sync_data that raises: the handler ends with an error response, nothing is
\* committed (main.py lines 338-362; save_state commits at line 176 only)
SyncFail(t, txs, accs) ==
    /\ SyncRaises(LoadOrCreate(t, clock), txs, accs)
    /\ UNCHANGED <<db, txrows, accrows, req, clock, llm, cache, getter>>

----------------------------------------------------------------------------
(* Model calls and the cached graph *)

MODELS ==
    << "x-ai/grok-4.1-fast", "anthropic/claude-3.5-sonnet", "anthropic/claude-3-opus" >>

\* no call_openrouter in flight
NoCall ==
    [pc |-> "idle", tools |-> FALSE, model_index |-> 0, attempts |-> <<>>,
     response |-> ""]

\* call_openrouter that moves on by two models when one fails
CallOpenrouterSkipsModel(call, ok) ==
    IF call.model_index >= Len(MODELS)
    THEN [call EXCEPT !.pc = "raised"]
    ELSE LET model == MODELS[call.model_index + 1]
             tried == Append(call.attempts, [model |-> model, ok |-> ok])
         IN  IF ok
             THEN [call EXCEPT !.pc = "returned", !.attempts = tried,
                               !.response = model]
             ELSE [call EXCEPT !.attempts = tried, !.model_index = @ + 2]

\* one activation of call_openrouter at call.model_index, ok being whether the
\* post and raise_for_status and json succeed (lines 134-170)
CallOpenrouter(call, ok) ==
    IF call.model_index >= Len(MODELS)
    THEN [call EXCEPT !.pc = "raised"]
    ELSE LET model == MODELS[call.model_index + 1]
             tried == Append(call.attempts, [model |-> model, ok |-> ok])
         IN  IF ok
             THEN [call EXCEPT !.pc = "returned", !.attempts = tried,
                               !.response = model]
             ELSE [call EXCEPT !.attempts = tried, !.model_index = @ + 1]

\* _checkpointer = None, _compiled_graph = None (lines 486-487); 0 is None
EmptyCache == [checkpointer |-> 0, compiled_graph |-> 0, connections |-> 0, graphs |-> 0]

\* no get_compiled_graph in flight
NoGraph == [pc |-> "idle", graph |-> 0]

\* get_compiled_graph up to its return or to the await of aiosqlite.connect
\* inside get_checkpointer (lines 501-506, 490-495)
GetCompiledGraph(p) ==
    /\ getter[p].pc = "idle"
    /\ IF cache.compiled_graph # 0
       THEN /\ getter' = [getter EXCEPT ![p] = [pc |-> "done", graph |-> cache.compiled_graph]]
            /\ cache' = cache
       ELSE IF cache.checkpointer # 0
            THEN /\ cache' = [cache EXCEPT !.graphs = @ + 1,
                                           !.compiled_graph = cache.graphs + 1]
                 /\ getter' = [getter EXCEPT ![p] = [pc |-> "done", graph |-> cache.graphs + 1]]
            ELSE /\ getter' = [getter EXCEPT ![p].pc = "connecting"]
                 /\ cache' = cache
    /\ UNCHANGED <<db, txrows, accrows, req, clock, llm>>

\* aiosqlite.connect completes: get_checkpointer stores its saver and returns,
\* get_compiled_graph compiles, stores and returns the graph (lines 495-497,
\* 506-508); no await lies between these lines
ConnectDone(p) ==
    /\ getter[p].pc = "connecting"
    /\ cache' = [ checkpointer |-> cache.connections + 1,
                  compiled_graph |-> cache.graphs + 1,
                  connections |-> cache.connections + 1,
                  graphs |-> cache.graphs + 1 ]
    /\ getter' = [getter EXCEPT ![p] = [pc |-> "done", graph |-> cache.graphs + 1]]
    /\ UNCHANGED <<db, txrows, accrows, req, clock, llm>>

\* process_message calls call_openrouter, with tools (line 370) or without
\* (line 428), in the graph the handler was given
LlmStart(p, tools) ==
    /\ getter[p].pc = "done"
    /\ llm[p].pc = "idle"
    /\ llm' = [llm EXCEPT ![p] = [NoCall EXCEPT !.pc = "calling", !.tools = tools]]
    /\ UNCHANGED <<db, txrows, accrows, req, clock, cache, getter>>

\* the post of the current activation of call_openrouter succeeds or fails
CallOpenrouterStep(p) ==
    /\ llm[p].pc = "calling"
    /\ \E ok \in BOOLEAN : llm' = [llm EXCEPT ![p] = CallOpenrouter(@, ok)]
    /\ UNCHANGED <<db, txrows, accrows, req, clock, cache, getter>>

\* the request ends with the response or with the error of call_openrouter
RequestEnd(p) ==
    /\ llm[p].pc \in {"returned", "raised"}
    /\ llm' = [llm EXCEPT ![p] = NoCall]
    /\ getter' = [getter EXCEPT ![p] = NoGraph]
    /\ UNCHANGED <<db, txrows, accrows, req, clock, cache>>

\* the wall clock moves on by a month while no handler is running
Tick ==
    /\ \A p \in DOMAIN req : req[p].pc = "idle"
    /\ clock < MaxClock
    /\ clock' = clock + 1
    /\ UNCHANGED <<db, txrows, accrows, req, llm, cache, getter>>

----------------------------------------------------------------------------
(* Inputs *)

Cash == <<"C", "a", "s", "h">>
Food == <<"F", "o", "o", "d">>

\* answers given to the wizard
WizardTexts ==
    { <<"n", "o", "n", "e">>,
      <<"2", " ", "o", "r", " ", "3">>,
      <<"a", ",", " ", "1", ".", "5", "0">>,
      <<"1", ".", "2", ".", "3">> }

----------------------------------------------------------------------------
(* The setup wizard driven by serial chat turns on one new thread *)

InitEmpty ==
    /\ db = EmptyMap
    /\ txrows = EmptyMap
    /\ accrows = EmptyMap
    /\ clock = 10
    /\ req = [p \in {"p1", "p2"} |-> Idle]
    /\ llm = [p \in {"p1", "p2"} |-> NoCall]
    /\ cache = EmptyCache
    /\ getter = [p \in {"p1", "p2"} |-> NoGraph]

NextWizard ==
    \/ \E text \in WizardTexts : ChatLoad("p1", "t1", text)
    \/ SetupNode("p1")
    \/ ChatSave("p1")

SpecWizard == InitEmpty /\ [][NextWizard]_vars

----------------------------------------------------------------------------
(* Serial chat turns that post transactions, on one thread *)

\* the answer given to every wizard question where the answers do not matter
Ok == <<"o", "k">>

Amounts == {-5, 0, 50}

\* add_transaction calls the model may ask for
PostingCalls ==
    { [ name |-> "add_transaction", amount |-> a, account_from |-> f,
        account_to |-> t, category |-> c ] :
      a \in Amounts, f \in {Cash, Food}, t \in {Cash, Food},
      c \in {"expense", "transfer"} }

\* tool_calls of one answer of the model: one or two calls
CallLists(calls) == {<<c>> : c \in calls} \cup {<<c, d>> : c \in calls, d \in calls}

NextPostings ==
    \/ ChatLoad("p1", "t1", Ok)
    \/ SetupNode("p1")
    \/ \E calls \in CallLists(PostingCalls) : ProcessStart("p1", calls)
    \/ ExecTool("p1")
    \/ ProcessFinish("p1")
    \/ TurnFail("p1")
    \/ ChatSave("p1")

SpecPostings == InitEmpty /\ [][NextPostings]_vars

----------------------------------------------------------------------------
(* Serial chat turns with every kind of tool call, and sync merges that run  *)
(* between the steps of a turn, on one thread                                *)

LedgerCalls ==
    { [ name |-> "add_transaction", amount |-> 50, account_from |-> Cash,
        account_to |-> Food, category |-> "expense" ],
      [ name |-> "update_balance", account_name |-> Cash, new_balance |-> 7,
        account_type |-> "liability" ],
      [ name |-> "generate_report" ] }

\* a transaction collected offline by a client
ClientTx(id) ==
    [ id |-> id, timestamp |-> 10, amount |-> 30, account_from |-> Cash,
      account_to |-> Food, category |-> "expense" ]

\* SyncRequest.transactions: id 101 is made by the client, id 1 is an
\* id the server has made or will make
SyncTransactions ==
    { <<>>, <<ClientTx(101)>>, <<ClientTx(101), ClientTx(101)>>, <<ClientTx(1)>> }

\* SyncRequest.accounts
SyncAccounts ==
    { EmptyMap,
      [n \in {Cash, Food} |->
          IF n = Cash THEN [type |-> "asset", balance |-> 70, updated_at |-> -1]
          ELSE [type |-> "expense", balance |-> 30, updated_at |-> -1]],
      [n \in {Cash} |-> [type |-> "liability", balance |-> 90, updated_at |-> -1]] }

NextLedger ==
    \/ ChatLoad("p1", "t1", Ok)
    \/ SetupNode("p1")
    \/ \E calls \in {<<>>} \cup {<<c>> : c \in LedgerCalls} : ProcessStart("p1", calls)
    \/ ExecTool("p1")
    \/ ProcessFinish("p1")
    \/ TurnFail("p1")
    \/ ChatSave("p1")
    \/ \E txs \in SyncTransactions, accs \in SyncAccounts : SyncData("t1", txs, accs)

SpecLedger == InitEmpty /\ [][NextLedger]_vars

----------------------------------------------------------------------------
(* Two chat handlers that run concurrently on one thread and post            *)
(* transactions                                                              *)

ConcCalls ==
    { [ name |-> "add_transaction", amount |-> 50, account_from |-> Cash,
        account_to |-> Food, category |-> "expense" ] }

NextConc ==
    \E p \in {"p1", "p2"} :
        \/ ChatLoad(p, "t1", Ok)
        \/ SetupNode(p)
        \/ \E c \in ConcCalls : ProcessStart(p, <<c>>)
        \/ ExecTool(p)
        \/ ProcessFinish(p)
        \/ TurnFail(p)
        \/ ChatSave(p)

SpecConc == InitEmpty /\ [][NextConc]_vars

----------------------------------------------------------------------------
(* Serial operations on one thread while the clock moves on: a sync merge    *)
(* runs only between chat turns, and some sync requests raise                *)

\* SyncRequest.transactions that sync_data merges
SerialTransactions == { <<>>, <<ClientTx(101)>> }

\* SyncRequest.transactions on which sync_data raises: an entry without "id",
\* and a new entry without "timestamp" behind a well-formed one
RaisingTransactions ==
    { <<[amount |-> 30]>>, <<ClientTx(103), [id |-> 102]>> }

\* SyncRequest.accounts
SerialAccounts ==
    { EmptyMap,
      [n \in {Cash} |-> [type |-> "liability", balance |-> 90, updated_at |-> -1]] }

NextSerial ==
    \/ ChatLoad("p1", "t1", Ok)
    \/ SetupNode("p1")
    \/ \E calls \in {<<>>} \cup {<<c>> : c \in LedgerCalls} : ProcessStart("p1", calls)
    \/ ExecTool("p1")
    \/ ProcessFinish("p1")
    \/ TurnFail("p1")
    \/ ChatSave("p1")
    \/ /\ req["p1"].pc = "idle"
       /\ \E txs \in SerialTransactions, accs \in SerialAccounts : SyncData("t1", txs, accs)
    \/ /\ req["p1"].pc = "idle"
       /\ \E txs \in RaisingTransactions, accs \in SerialAccounts : SyncFail("t1", txs, accs)
    \/ Tick

SpecSerial == InitEmpty /\ [][NextSerial]_vars

----------------------------------------------------------------------------
(* Chat turns with two message texts and sync merges between them, on one    *)
(* thread: the routing of a turn                                             *)

\* a message that describes a transaction
Paid == <<"p", "a", "i", "d", " ", "5", "0">>

NextRouting ==
    \/ \E text \in {Ok, Paid} : ChatLoad("p1", "t1", text)
    \/ SetupNode("p1")
    \/ \E calls \in {<<>>} \cup {<<c>> : c \in ConcCalls} : ProcessStart("p1", calls)
    \/ ExecTool("p1")
    \/ ProcessFinish("p1")
    \/ TurnFail("p1")
    \/ ChatSave("p1")
    \/ /\ req["p1"].pc = "idle"
       /\ \E txs \in SerialTransactions, accs \in SerialAccounts : SyncData("t1", txs, accs)

SpecRouting == InitEmpty /\ [][NextRouting]_vars

----------------------------------------------------------------------------
(* Two threads: chat turns on one, sync merges on both, with a client        *)
(* transaction id that both threads may send                                 *)

NextThreads ==
    \/ ChatLoad("p1", "t1", Ok)
    \/ SetupNode("p1")
    \/ \E calls \in {<<>>} \cup {<<c>> : c \in ConcCalls} : ProcessStart("p1", calls)
    \/ ExecTool("p1")
    \/ ProcessFinish("p1")
    \/ ChatSave("p1")
    \/ /\ req["p1"].pc = "idle"
       /\ \E t \in {"t1", "t2"}, txs \in SerialTransactions, accs \in SerialAccounts :
             SyncData(t, txs, accs)

SpecThreads == InitEmpty /\ [][NextThreads]_vars

----------------------------------------------------------------------------
(* The snapshot of account mappings: sync merges that set one account each   *)

Stock == <<"S", "T", "O", "C", "K">>
Reinvest == <<"r", "e", "I", "n", "v", "e", "s", "t">>
Crypto == <<"C", "r", "y", "p", "t", "o">>

AccountTypes == {"asset", "liability", "income", "expense", "equity"}

\* SyncRequest.accounts with one account: any of four names, any type, a
\* negative or a positive balance
SnapshotAccounts ==
    { [n \in {name} |-> [type |-> ty, balance |-> b, updated_at |-> -1]] :
        name \in {Cash, Stock, Reinvest, Crypto}, ty \in AccountTypes, b \in {-5, 40} }

NextSnapshot ==
    \E accs \in SnapshotAccounts : SyncData("t1", <<>>, accs)

SpecSnapshot == InitEmpty /\ [][NextSnapshot]_vars

----------------------------------------------------------------------------
(* The year-to-date figures of transaction histories: sync merges that       *)
(* append one transaction each, while the clock moves into the next year     *)

Categories == {"income", "expense", "transfer", "investment"}

\* the amounts a client transaction with this id may carry
YtdAmounts(id) ==
    CASE id = 101 -> {10000}
      [] id = 102 -> {2000, -300}
      [] OTHER -> {500}

\* SyncRequest.transactions with one transaction: any category, dated in
\* year 0 (month 10) or in year 1 (month 12)
YtdBatches ==
    { << [ id |-> id, timestamp |-> ts, amount |-> a, account_from |-> Cash,
           account_to |-> Food, category |-> cat ] >> :
        <<id, a>> \in UNION { {id} \X YtdAmounts(id) : id \in 101..(100 + MaxTx) },
        cat \in Categories, ts \in {10, 12} }

NextYtd ==
    \/ \E txs \in YtdBatches : SyncData("t1", txs, EmptyMap)
    \/ Tick

SpecYtd == InitEmpty /\ [][NextYtd]_vars

----------------------------------------------------------------------------
(* Sync requests that carry transactions only or accounts only *)

\* SyncRequest.transactions with accounts empty: one or two client transactions
MergeTransactionBatches ==
    LET ids == 101..(100 + MaxTx)
    IN  {<<>>} \cup {<<ClientTx(i)>> : i \in ids}
               \cup {<<ClientTx(i), ClientTx(j)>> : i \in ids, j \in ids}

\* SyncRequest.accounts with transactions empty: one account record
MergeAccountBatches ==
    { [n \in {name} |-> [type |-> ty, balance |-> b, updated_at |-> -1]] :
        name \in {Cash, Food}, ty \in {"asset", "liability"}, b \in {-5, 40} }

NextMerge ==
    \/ \E txs \in MergeTransactionBatches : SyncData("t1", txs, EmptyMap)
    \/ \E accs \in MergeAccountBatches : SyncData("t1", <<>>, accs)
    \/ Tick

SpecMerge == InitEmpty /\ [][NextMerge]_vars

----------------------------------------------------------------------------
(* Two requests that fetch the graph and call the model *)

NextAgent ==
    \E p \in {"p1", "p2"} :
        \/ GetCompiledGraph(p)
        \/ ConnectDone(p)
        \/ \E tools \in BOOLEAN : LlmStart(p, tools)
        \/ CallOpenrouterStep(p)
        \/ RequestEnd(p)

SpecAgent == InitEmpty /\ [][NextAgent]_vars

\* every post ends, by an answer, an error status or the 60 s timeout of the
\* client (line 158), and the event loop resumes the coroutine that awaits it
SpecAgentFair ==
    SpecAgent /\ \A p \in {"p1", "p2"} : WF_vars(CallOpenrouterStep(p))

----------------------------------------------------------------------------
(* The dependents question answered with every short text *)

DependentsAlphabet == {"a", "-", " ", "0", "1", "7"}

RECURSIVE TextsUpTo(_)
\* every text of at most n characters of the alphabet
TextsUpTo(n) ==
    IF n = 0
    THEN {<<>>}
    ELSE LET shorter == TextsUpTo(n - 1)
         IN  shorter \cup {Append(t, c) : t \in shorter, c \in DependentsAlphabet}

DependentsTexts == TextsUpTo(MaxLen)

NextDependents ==
    \/ /\ LoadOrCreate("t1", clock).setup_step < 2
       /\ ChatLoad("p1", "t1", Ok)
    \/ /\ LoadOrCreate("t1", clock).setup_step = 2
       /\ \E text \in DependentsTexts : ChatLoad("p1", "t1", text)
    \/ SetupNode("p1")
    \/ ChatSave("p1")

SpecDependents == InitEmpty /\ [][NextDependents]_vars

----------------------------------------------------------------------------
(* Claims *)

\* the number of user messages of a message list: the answers given so far
UserCount(messages) == Len(SelectSeq(messages, LAMBDA m : m.role = "user"))

SetupComplete(st) == ~ShouldSetup(st)

\* C10: from a new thread, serial answer turns raise setup_step by one per turn:
\* after n <= 8 answers the persisted step is n, setup_complete holds exactly
\* when n = 8, and a turn routed to the wizard always runs to its save with the
\* step one above the step it loaded, whatever the answer text.
C10_WizardAdvances ==
    /\ \A t \in DOMAIN db :
          LET n == UserCount(db[t].messages)
          IN  n <= Len(SETUP_QUESTIONS) =>
                /\ db[t].setup_step = n
                /\ SetupComplete(db[t]) <=> (n = Len(SETUP_QUESTIONS))
    /\ \A p \in DOMAIN req :
          /\ (req[p].pc = "loaded" /\ ShouldSetup(req[p].st)) => ENABLED SetupNode(p)
          /\ (req[p].pc = "invoked" /\ UserCount(req[p].st.messages) <= Len(SETUP_QUESTIONS)) =>
                /\ req[p].st.setup_step = UserCount(req[p].st.messages)
                /\ req[p].st.setup_step = LoadOrCreate(req[p].thread, clock).setup_step + 1

\* eight answers given, the dependents answer "none", and the setup complete
C10_Witness ==
    /\ "t1" \in DOMAIN db
    /\ db["t1"].setup_step = 8
    /\ SetupComplete(db["t1"])
    /\ db["t1"].messages[5] = UserMsg(<<"n", "o", "n", "e">>)
    /\ db["t1"].user_profile[1].dependents = 0
    /\ UserCount(db["t1"].messages) = 8

----------------------------------------------------------------------------
(* Ledger claims *)

SumAll(accounts) == SumBalances(accounts, DOMAIN accounts)

\* the balance of account n, a missing account counting as 0
Balance(accounts, n) == IF n \in DOMAIN accounts THEN accounts[n].balance ELSE 0

RECURSIVE NetPostings(_, _)
\* credits to n minus debits from n over a transaction history
NetPostings(txs, n) ==
    IF txs = <<>> THEN 0
    ELSE (IF Head(txs).account_to = n THEN Head(txs).amount ELSE 0)
         - (IF Head(txs).account_from = n THEN Head(txs).amount ELSE 0)
         + NetPostings(Tail(txs), n)

\* every account's balance is the net of the history's postings to it
BalancedAccounts(st) ==
    \A n \in DOMAIN st.accounts : st.accounts[n].balance = NetPostings(st.transactions, n)

\* the same, and an account the history names but the mapping lacks has net 0
Balanced(st) ==
    \A n \in DOMAIN st.accounts
             \cup {st.transactions[i].account_from : i \in 1..Len(st.transactions)}
             \cup {st.transactions[i].account_to : i \in 1..Len(st.transactions)} :
       Balance(st.accounts, n) = NetPostings(st.transactions, n)

\* a sync merge of the batch (txs, accs) on thread t
SyncStep(t, txs, accs) ==
    /\ req' = req
    /\ db' # db
    /\ db'[t].transactions =
          MergeTransactions(LoadOrCreate(t, clock).transactions, txs,
                            Ids(LoadOrCreate(t, clock).transactions))
    /\ db'[t].accounts = MergeAccounts(LoadOrCreate(t, clock).accounts, accs)
    /\ db'[t] = SyncMerge(LoadOrCreate(t, clock), txs, accs, clock)

\* handler p executes an add_transaction tool call
AddStep(p) == ExecTool(p) /\ Head(req[p].calls).name = "add_transaction"

\* handler p executes an update_balance tool call
UpdateBalanceStep(p) == ExecTool(p) /\ Head(req[p].calls).name = "update_balance"

AllIdle == \A p \in DOMAIN req : req[p].pc = "idle"

\* C2: one applied transaction changes the sum of all balances by 0, and on a
\* thread changed by applied transactions only the sum of all balances is 0.
C2_SumPreserved ==
    /\ [](\A t \in DOMAIN db : SumAll(db[t].accounts) = 0)
    /\ [][\A p \in DOMAIN req :
            AddStep(p) => SumAll(req'[p].st.accounts) = SumAll(req[p].st.accounts)]_vars

\* a history with a posting from an account to itself and a posting of a
\* negative amount
C2_Witness ==
    /\ "t1" \in DOMAIN db
    /\ Len(db["t1"].transactions) = 2
    /\ db["t1"].transactions[1].account_from = db["t1"].transactions[1].account_to
    /\ db["t1"].transactions[1].amount = 50
    /\ db["t1"].transactions[2].amount = -5
    /\ db["t1"].transactions[2].account_from # db["t1"].transactions[2].account_to

\* C3 as stated: in every persisted state every balance is the net of the
\* history's postings.
C3_BalanceIsNetPostings == \A t \in DOMAIN db : BalancedAccounts(db[t])

\* C3 amended: every step other than an update_balance call and a sync merge
\* keeps the balances equal to the net postings: loading, the wizard, an
\* add_transaction call, the other tools, the end of the turn and the save.
C3_PostingsKeepBalance ==
    [][\A p \in DOMAIN req :
         /\ (req[p].pc = "idle" /\ req'[p].pc # "idle") =>
               (Balanced(LoadOrCreate(req'[p].thread, clock)) => Balanced(req'[p].st))
         /\ (req[p].pc # "idle" /\ req'[p].pc # "idle" /\ ~UpdateBalanceStep(p)) =>
               (Balanced(req[p].st) => Balanced(req'[p].st))
         /\ (req[p].pc = "invoked" /\ req'[p].pc = "idle") =>
               (Balanced(req[p].st) => Balanced(db'[req[p].thread]))]_vars

\* a persisted state made by postings alone: two of them, balances their net
C3_Witness ==
    /\ "t1" \in DOMAIN db
    /\ Len(db["t1"].transactions) = 2
    /\ \A i \in 1..2 : db["t1"].transactions[i].id \in {1, 2}
    /\ DOMAIN db["t1"].accounts = {Cash, Food}
    /\ db["t1"].accounts[Cash].balance = -100
    /\ db["t1"].accounts[Food].balance = 100
    /\ Balanced(db["t1"])

\* C4: an add_transaction call with an amount <= 0 changes neither the history
\* nor the accounts.
C4_NonPositiveRejected ==
    [][\A p \in DOMAIN req :
         (AddStep(p) /\ Head(req[p].calls).amount <= 0) =>
            /\ req'[p].st.transactions = req[p].st.transactions
            /\ req'[p].st.accounts = req[p].st.accounts]_vars

\* account_to.balance - account_from.balance
Spread(accounts, args) ==
    Balance(accounts, args.account_to) - Balance(accounts, args.account_from)

\* C5 as stated: every applied transaction raises account_to.balance -
\* account_from.balance by 2 * amount, for all account names.
C5_SpreadGrowsByTwice ==
    [][\A p \in DOMAIN req :
         AddStep(p) =>
            Spread(req'[p].st.accounts, Head(req[p].calls))
              = Spread(req[p].st.accounts, Head(req[p].calls))
                + 2 * Head(req[p].calls).amount]_vars

\* C5 amended: the same for account_from # account_to.
C5_SpreadGrowsByTwiceDistinct ==
    [][\A p \in DOMAIN req :
         (AddStep(p) /\ Head(req[p].calls).account_from # Head(req[p].calls).account_to) =>
            Spread(req'[p].st.accounts, Head(req[p].calls))
              = Spread(req[p].st.accounts, Head(req[p].calls))
                + 2 * Head(req[p].calls).amount]_vars

\* amount 50 from Cash to Food applied to the empty ledger: Cash -50, Food 50
C5_Witness ==
    /\ req["p1"].pc = "tools"
    /\ Len(req["p1"].st.transactions) = 1
    /\ req["p1"].st.transactions[1].amount = 50
    /\ req["p1"].st.transactions[1].account_from = Cash
    /\ req["p1"].st.transactions[1].account_to = Food
    /\ req["p1"].st.accounts[Cash].balance = -50
    /\ req["p1"].st.accounts[Food].balance = 50

\* C6: no two entries of a persisted history have the same id.
C6_UniqueIds ==
    \A t \in DOMAIN db :
       \A i, j \in 1..Len(db[t].transactions) :
          i # j => db[t].transactions[i].id # db[t].transactions[j].id

\* C7: after a sync merge of a batch, merging the same batch again at the same
\* time gives the same history, accounts and snapshot.
C7_MergeIdempotent ==
    [][\A t \in DOMAIN db', txs \in SyncTransactions, accs \in SyncAccounts :
         SyncStep(t, txs, accs) =>
            LET once == db'[t]
                twice == SyncMerge(once, txs, accs, clock')
            IN  /\ twice.transactions = once.transactions
                /\ twice.accounts = once.accounts
                /\ twice.snapshot = once.snapshot]_vars

\* a batch that lists id 101 twice and sets two accounts has been merged
C7_Witness ==
    /\ "t1" \in DOMAIN db
    /\ Len(SelectSeq(db["t1"].transactions, LAMBDA tx : tx.id = 101)) = 2
    /\ Cash \in DOMAIN db["t1"].accounts
    /\ db["t1"].accounts[Cash].balance = 70
    /\ db["t1"].snapshot.ytd_expenses = 60

\* C8: after a sync merge every incoming account has the incoming record and
\* every other account the record it had.
C8_LastWriteWins ==
    [][\A t \in DOMAIN db', txs \in SyncTransactions, accs \in SyncAccounts :
         SyncStep(t, txs, accs) =>
            LET old == LoadOrCreate(t, clock).accounts
            IN  /\ DOMAIN db'[t].accounts = DOMAIN old \cup DOMAIN accs
                /\ \A n \in DOMAIN accs : db'[t].accounts[n] = accs[n]
                /\ \A n \in DOMAIN old \ DOMAIN accs : db'[t].accounts[n] = old[n]]_vars

\* Cash merged with balance 70 and then with balance 90: 90 is in effect, and
\* Food keeps the record of the first merge
C8_Witness ==
    /\ "t1" \in DOMAIN db
    /\ DOMAIN db["t1"].accounts = {Cash, Food}
    /\ db["t1"].accounts[Cash] = [type |-> "liability", balance |-> 90, updated_at |-> -1]
    /\ db["t1"].accounts[Food] = [type |-> "expense", balance |-> 30, updated_at |-> -1]

\* C9: once no handler is running, every transaction and account that was saved
\* for a thread is in the thread's persisted state.
C9_SyncNotLost ==
    AllIdle =>
       /\ \A id \in DOMAIN txrows :
             /\ txrows[id].thread_id \in DOMAIN db
             /\ id \in Ids(db[txrows[id].thread_id].transactions)
       /\ \A k \in DOMAIN accrows :
             /\ k[1] \in DOMAIN db
             /\ k[2] \in DOMAIN db[k[1]].accounts

RECURSIVE NetRows(_, _, _)
\* credits to n minus debits from n over the rows ids of the transactions table
NetRows(rows, ids, n) ==
    IF ids = {} THEN 0
    ELSE LET id == CHOOSE x \in ids : TRUE
         IN  (IF rows[id].tx.account_to = n THEN rows[id].tx.amount ELSE 0)
             - (IF rows[id].tx.account_from = n THEN rows[id].tx.amount ELSE 0)
             + NetRows(rows, ids \ {id}, n)

\* the state was saved by a turn of transaction processing
SavedByProcessTurn(st) ==
    SetupComplete(st) /\ Len(st.messages) > 2 * Len(SETUP_QUESTIONS)

\* C1: once no handler is running and the last save was that of a posting turn,
\* the persisted history of the thread holds every transaction a completed turn
\* posted on it, and the persisted balances are the net of all these postings.
C1_NoLostUpdate ==
    AllIdle =>
       \A t \in DOMAIN db :
          LET mine == {id \in DOMAIN txrows : txrows[id].thread_id = t}
          IN  SavedByProcessTurn(db[t]) =>
                /\ mine \subseteq Ids(db[t].transactions)
                /\ \A n \in {Cash, Food} :
                      Balance(db[t].accounts, n) = NetRows(txrows, mine, n)

----------------------------------------------------------------------------
(* Wizard and orchestrator claims *)

\* the states of thread t a step leaves behind: the persisted one, and the one
\* of each handler working on t
LiveStates ==
    {db[t] : t \in DOMAIN db}
    \cup {req[p].st : p \in {q \in DOMAIN req : req[q].pc # "idle"}}

\* C11: in every state of a thread, persisted or held by a handler,
\* setup_complete holds exactly when setup_step is 8; a persisted state becomes
\* complete only by a step from setup_step 7 to 8, the chat turn saved on step 7
\* makes it complete, and once complete the profile and setup_step of the
\* persisted state never change again, by chat turns or by sync merges.
C11_CompleteIffLastStep ==
    /\ [](\A st \in LiveStates : SetupComplete(st) <=> st.setup_step = Len(SETUP_QUESTIONS))
    /\ [][\A t \in DOMAIN db' :
            LET old == LoadOrCreate(t, clock)
                new == db'[t]
            IN  /\ (SetupComplete(new) /\ ~SetupComplete(old)) =>
                       (old.setup_step = 7 /\ new.setup_step = 8)
                /\ (old.setup_step = 7 /\ new.messages # old.messages) =>
                       SetupComplete(new)
                /\ (old.setup_step < 7 /\ new.messages # old.messages) =>
                       (~SetupComplete(new) /\ new.setup_step = old.setup_step + 1)
                /\ SetupComplete(old) =>
                       /\ new.user_profile = old.user_profile
                       /\ new.setup_step = old.setup_step]_vars

\* a complete thread after two more chat turns and a sync merge, a month later
C11_Witness ==
    /\ "t1" \in DOMAIN db
    /\ SetupComplete(db["t1"])
    /\ db["t1"].setup_step = 8
    /\ Len(db["t1"].messages) = 2 * Len(SETUP_QUESTIONS) + 4
    /\ 101 \in Ids(db["t1"].transactions)
    /\ Cash \in DOMAIN db["t1"].accounts
    /\ clock > 10

\* C12: when the wizard has run for the first time on a thread, on the first
\* chat turn, before any question was asked, setup_step is still 0, no profile
\* is stored and the reply is the welcome with the first question.
C12_FirstInvocationAsks ==
    \A p \in DOMAIN req :
       (req[p].pc = "invoked" /\ Len(req[p].st.messages) = 2) =>
          /\ req[p].st.setup_step = 0
          /\ req[p].st.user_profile = <<>>
          /\ req[p].st.messages[2] = AssistantMsg(<<"Welcome", SETUP_QUESTIONS[1]>>)

\* the profile is absent or its setup_complete is false
Incomplete(st) ==
    IF st.user_profile = <<>> THEN TRUE ELSE st.user_profile[1].setup_complete = FALSE

\* C13: the graph runs the wizard on the turn's state exactly when the profile
\* is absent or incomplete, and transaction processing otherwise; the wizard
\* leaves accounts and history as they are, so that the chat turn saved on an
\* incomplete thread leaves the persisted accounts and history unchanged,
\* whatever the text.
C13_RoutingAndFrame ==
    [][\A p \in DOMAIN req :
         /\ (req[p].pc = "loaded" /\ req'[p].pc # "loaded") =>
               IF Incomplete(req[p].st)
               THEN /\ req'[p].pc = "invoked"
                    /\ req'[p].st.setup_step = req[p].st.setup_step + 1
                    /\ req'[p].st.messages[Len(req'[p].st.messages)].content
                          \in { <<"Got it!", SETUP_QUESTIONS[i]>> : i \in 2..8 }
                              \cup { <<"Setup complete!">> }
                    /\ req'[p].st.accounts = req[p].st.accounts
                    /\ req'[p].st.transactions = req[p].st.transactions
               ELSE /\ req'[p].pc \in {"tools", "idle"}
                    /\ req'[p].st.setup_step = req[p].st.setup_step \/ req'[p].pc = "idle"
         /\ (req[p].pc = "invoked" /\ req'[p].pc = "idle"
               /\ Incomplete(LoadOrCreate(req[p].thread, clock))) =>
               /\ db'[req[p].thread].accounts = LoadOrCreate(req[p].thread, clock).accounts
               /\ db'[req[p].thread].transactions =
                     LoadOrCreate(req[p].thread, clock).transactions
               /\ db'[req[p].thread].setup_step =
                     LoadOrCreate(req[p].thread, clock).setup_step + 1]_vars

\* a thread with a synced account and transaction, at step 2 of its setup, on
\* which the wizard has just stored the text "paid 50" as the dependents answer
C13_Witness ==
    /\ req["p1"].pc = "invoked"
    /\ req["p1"].st.setup_step = 3
    /\ req["p1"].st.messages[5] = UserMsg(Paid)
    /\ req["p1"].st.user_profile[1].dependents = 50
    /\ Cash \in DOMAIN req["p1"].st.accounts
    /\ Ids(req["p1"].st.transactions) = {101}
    /\ db["t1"].accounts = req["p1"].st.accounts

\* C14: a chat turn that ends without reaching its save leaves the sessions,
\* transactions and accounts tables as they were, and nothing of a sync request
\* that raises is ever persisted: neither its malformed entry nor the
\* well-formed entry merged before it.
C14_FailureLeavesState ==
    /\ [][\A p \in DOMAIN req :
            (req[p].pc \in {"loaded", "tools"} /\ req'[p].pc = "idle") =>
               (db' = db /\ txrows' = txrows /\ accrows' = accrows)]_vars
    /\ [](/\ DOMAIN txrows \cap {102, 103} = {}
          /\ \A t \in DOMAIN db :
                \A i \in 1..Len(db[t].transactions) :
                   /\ TxKeys \subseteq DOMAIN db[t].transactions[i]
                   /\ db[t].transactions[i].id \notin {102, 103})

\* a turn on a persisted thread that has posted a transaction and can now fail,
\* while a sync request on the thread can raise
C14_Witness ==
    /\ req["p1"].pc = "tools"
    /\ req["p1"].calls = <<>>
    /\ "t1" \in DOMAIN db
    /\ Len(req["p1"].st.transactions) = Len(db["t1"].transactions) + 1
    /\ req["p1"].st.accounts # db["t1"].accounts
    /\ ENABLED TurnFail("p1")
    /\ \A txs \in RaisingTransactions : SyncRaises(db["t1"], txs, EmptyMap)

\* handler p saves the state of its turn
SaveStep(p) == req[p].pc = "invoked" /\ req'[p].pc = "idle"

\* C15: the state persisted by a completed chat turn, of the wizard or of
\* transaction processing, and the state persisted by a sync merge carry the
\* snapshot that the calculator gives for that state's accounts and history at
\* the time of the operation.
C15_SnapshotRecomputed ==
    [][\A t \in DOMAIN db' :
         db'[t] # LoadOrCreate(t, clock) =>
            db'[t].snapshot = CalculateSnapshot(db'[t], clock')]_vars

\* C16: the state persisted by a completed chat turn, of the wizard or of
\* transaction processing, has the time of the turn as last_updated.
C16_LastUpdatedSet ==
    [][\A p \in DOMAIN req :
         SaveStep(p) => db'[req[p].thread].last_updated = clock']_vars

\* s is a prefix of t
IsPrefix(s, t) == Len(s) <= Len(t) /\ SubSeq(t, 1, Len(s)) = s

\* C17: over serial chat turns and sync merges every step leaves the persisted
\* history of a thread a prefix of the history after it, and keeps every
\* account name of the thread.
C17_AppendOnly ==
    [][\A t \in DOMAIN db :
         /\ t \in DOMAIN db'
         /\ IsPrefix(db[t].transactions, db'[t].transactions)
         /\ DOMAIN db[t].accounts \subseteq DOMAIN db'[t].accounts]_vars

\* a history with a synced transaction followed by a posted one, over accounts
\* that a sync merge and a posting wrote
C17_Witness ==
    /\ "t1" \in DOMAIN db
    /\ Len(db["t1"].transactions) = 2
    /\ db["t1"].transactions[1].id = 101
    /\ db["t1"].transactions[2].id = 1
    /\ DOMAIN db["t1"].accounts = {Cash, Food}
    /\ db["t1"].accounts[Cash].type = "liability"
    /\ db["t1"].accounts[Cash].balance = 40

\* the rows of the transactions table stored for thread t
RowsOf(rows, t) == {id \in DOMAIN rows : rows[id].thread_id = t}

\* C18: a step that writes the session state of one thread leaves the session
\* state of every other thread and the set of transaction rows stored for it
\* unchanged.
C18_ThreadIsolation ==
    [][\A t \in DOMAIN db, u \in DOMAIN db' :
         (u # t /\ db'[u] # LoadOrCreate(u, clock)) =>
            /\ db'[t] = db[t]
            /\ RowsOf(txrows', t) = RowsOf(txrows, t)]_vars

----------------------------------------------------------------------------
(* Snapshot claims *)

Abs(x) == IF x < 0 THEN -x ELSE x

RECURSIVE SumMagnitudes(_, _)
\* the sum of the magnitudes of the balances of the accounts named in S
SumMagnitudes(accounts, S) ==
    IF S = {} THEN 0
    ELSE LET n == CHOOSE x \in S : TRUE
         IN  Abs(accounts[n].balance) + SumMagnitudes(accounts, S \ {n})

OfType(accounts, ty) == {n \in DOMAIN accounts : accounts[n].type = ty}

\* C19: in every recorded snapshot total_liabilities is the sum of the
\* magnitudes of the liability balances, and so is never negative.
C19_LiabilitiesMagnitude ==
    \A t \in DOMAIN db :
       /\ db[t].snapshot.total_liabilities
             = SumMagnitudes(db[t].accounts, OfType(db[t].accounts, "liability"))
       /\ db[t].snapshot.total_liabilities >= 0

\* the names that contain invest, stock or crypto in some case
InvestmentNames == {Stock, Reinvest, Crypto}

\* the accounts mapping without the account n
Without(accounts, n) == [x \in DOMAIN accounts \ {n} |-> accounts[x]]

\* the four totals of a snapshot
Totals(snap) ==
    <<snap.total_cash, snap.total_investments, snap.total_liabilities, snap.net_worth>>

\* C20: in every recorded snapshot total_investments is the sum of the asset
\* balances under the names with a keyword, total_cash the sum of the other
\* asset balances, both together the sum of all asset balances; dropping an
\* income, expense or equity account changes no total; and net_worth is
\* total_cash + total_investments - total_liabilities.
C20_AssetClassification ==
    \A t \in DOMAIN db :
       LET accounts == db[t].accounts
           snap == db[t].snapshot
           assets == OfType(accounts, "asset")
       IN  /\ snap.total_investments = SumBalances(accounts, assets \cap InvestmentNames)
           /\ snap.total_cash = SumBalances(accounts, assets \ InvestmentNames)
           /\ snap.total_cash + snap.total_investments = SumBalances(accounts, assets)
           /\ snap.net_worth
                 = snap.total_cash + snap.total_investments - snap.total_liabilities
           /\ \A n \in DOMAIN accounts :
                 accounts[n].type \in {"income", "expense", "equity"} =>
                    Totals(CalculateSnapshot([db[t] EXCEPT !.accounts = Without(accounts, n)],
                                             clock))
                      = Totals(snap)

\* a cash asset, an investment asset named in capitals, a liability with a
\* negative balance and an expense account under an investment name
C20_Witness ==
    /\ "t1" \in DOMAIN db
    /\ DOMAIN db["t1"].accounts = {Cash, Stock, Reinvest, Crypto}
    /\ db["t1"].accounts[Cash] = [type |-> "asset", balance |-> 40, updated_at |-> -1]
    /\ db["t1"].accounts[Stock] = [type |-> "asset", balance |-> 40, updated_at |-> -1]
    /\ db["t1"].accounts[Reinvest].type = "liability"
    /\ db["t1"].accounts[Reinvest].balance = -5
    /\ db["t1"].accounts[Crypto].type = "expense"
    /\ db["t1"].snapshot.total_cash = 40
    /\ db["t1"].snapshot.total_investments = 40
    /\ db["t1"].snapshot.net_worth = 85

RECURSIVE SumOver(_, _)
\* the sum of the amounts of the entries of txs at the positions in I
SumOver(txs, I) ==
    IF I = {} THEN 0
    ELSE LET i == CHOOSE x \in I : TRUE
         IN  txs[i].amount + SumOver(txs, I \ {i})

\* the positions of the entries of category cat dated in the calendar year
InYear(txs, cat, year) ==
    {i \in 1..Len(txs) : txs[i].category = cat /\ txs[i].timestamp \div 12 = year}

\* C21: in the snapshot a sync merge records (taken at the time last_updated
\* holds) ytd_income is the sum of the amounts of exactly the income entries
\* dated in the year of that time, and ytd_expenses that of the expense
\* entries; other years and other categories add nothing.
C21_YtdWindow ==
    \A t \in DOMAIN db :
       LET year == db[t].last_updated \div 12
       IN  /\ db[t].snapshot.ytd_income
                 = SumOver(db[t].transactions, InYear(db[t].transactions, "income", year))
           /\ db[t].snapshot.ytd_expenses
                 = SumOver(db[t].transactions, InYear(db[t].transactions, "expense", year))

\* an income entry dated in year 0 and an expense entry dated in year 1, and a
\* snapshot taken in year 1
C21_Witness ==
    /\ "t1" \in DOMAIN db
    /\ db["t1"].last_updated = 12
    /\ Len(db["t1"].transactions) = 2
    /\ db["t1"].transactions[1].category = "income"
    /\ db["t1"].transactions[1].timestamp = 10
    /\ db["t1"].transactions[2].category = "expense"
    /\ db["t1"].transactions[2].timestamp = 12
    /\ db["t1"].snapshot.ytd_income = 0
    /\ db["t1"].snapshot.ytd_expenses = 2000

\* C22: in every recorded snapshot the tax estimate (held in thousandths) is
\* 0.22 * (ytd_income - 0.10 * ytd_expenses) when that taxable amount is
\* positive and 0 otherwise, never negative; income 10000 with expenses 2000
\* gives 2156.
C22_TaxEstimate ==
    \A t \in DOMAIN db :
       LET snap == db[t].snapshot
           taxable10 == 10 * snap.ytd_income - snap.ytd_expenses
       IN  /\ taxable10 > 0 =>
                 snap.estimated_tax_liability = 220 * snap.ytd_income - 22 * snap.ytd_expenses
           /\ taxable10 <= 0 => snap.estimated_tax_liability = 0
           /\ snap.estimated_tax_liability >= 0
           /\ (snap.ytd_income = 10000 /\ snap.ytd_expenses = 2000) =>
                 snap.estimated_tax_liability = 2156 * 1000

\* the snapshot of income 10000 and expenses 2000 of the same year
C22_Witness ==
    /\ "t1" \in DOMAIN db
    /\ db["t1"].snapshot.ytd_income = 10000
    /\ db["t1"].snapshot.ytd_expenses = 2000
    /\ db["t1"].snapshot.estimated_tax_liability = 2156000

----------------------------------------------------------------------------
(* Account creation *)

\* what one posting of args adds to the balance of account n
PostingTo(args, n) ==
    (IF args.account_to = n THEN args.amount ELSE 0)
    - (IF args.account_from = n THEN args.amount ELSE 0)

\* C24 as stated: an account the applied transaction names and the mapping
\* lacks is created with balance 0 and type expense when it is the account_to
\* of an expense transaction, asset otherwise; existing accounts keep their
\* type.
C24_CreatedAccountType ==
    [][\A p \in DOMAIN req :
         AddStep(p) =>
            LET args == Head(req[p].calls)
                old == req[p].st.accounts
                new == req'[p].st.accounts
            IN  /\ DOMAIN new = DOMAIN old \cup {args.account_from, args.account_to}
                /\ \A n \in DOMAIN new \ DOMAIN old :
                      /\ new[n].type = IF n = args.account_to /\ args.category = "expense"
                                       THEN "expense" ELSE "asset"
                      /\ new[n].balance = 0 + PostingTo(args, n)
                /\ \A n \in DOMAIN old : new[n].type = old[n].type]_vars

\* C24 amended: the type is expense when the account is the account_to of an
\* expense transaction and is not also its account_from.
C24_CreatedAccountTypeDistinct ==
    [][\A p \in DOMAIN req :
         AddStep(p) =>
            LET args == Head(req[p].calls)
                old == req[p].st.accounts
                new == req'[p].st.accounts
            IN  /\ DOMAIN new = DOMAIN old \cup {args.account_from, args.account_to}
                /\ \A n \in DOMAIN new \ DOMAIN old :
                      /\ new[n].type = IF /\ n = args.account_to
                                          /\ n # args.account_from
                                          /\ args.category = "expense"
                                       THEN "expense" ELSE "asset"
                      /\ new[n].balance = 0 + PostingTo(args, n)
                /\ \A n \in DOMAIN old : new[n].type = old[n].type]_vars

\* Food created as expense account by an expense of 50 from Cash, and then
\* credited by a transfer: it is still an expense account
C24_Witness ==
    /\ req["p1"].pc = "tools"
    /\ Len(req["p1"].st.transactions) = 2
    /\ req["p1"].st.transactions[1].category = "expense"
    /\ req["p1"].st.transactions[1].account_from = Cash
    /\ req["p1"].st.transactions[1].account_to = Food
    /\ req["p1"].st.transactions[2].category = "transfer"
    /\ req["p1"].st.transactions[2].account_to = Food
    /\ req["p1"].st.accounts[Food].type = "expense"
    /\ req["p1"].st.accounts[Cash].type = "asset"

----------------------------------------------------------------------------
(* The dependents answer *)

RECURSIVE RunValue(_, _, _)
\* the number written by the digits text[i..j], units first
RunValue(text, i, j) ==
    IF j < i THEN 0 ELSE DigitVal(text[j]) + 10 * RunValue(text, i, j - 1)

\* the leftmost maximal run of digits of text, as a pair of positions
FirstRun(text) ==
    CHOOSE r \in (1..Len(text)) \X (1..Len(text)) :
        /\ r[1] <= r[2]
        /\ \A k \in 1..(r[1] - 1) : text[k] \notin Digits
        /\ \A k \in r[1]..r[2] : text[k] \in Digits
        /\ r[2] = Len(text) \/ text[r[2] + 1] \notin Digits

\* C25: at wizard step 2, whatever the answer text, the stored dependents
\* value is the number written by the leftmost maximal run of digits of the
\* text (a sign or a fraction around it is not read), 0 when the text has no
\* digit, and the step advances to 3 in both cases.
C25_DependentsParsed ==
    [][\A p \in DOMAIN req :
         (/\ req[p].pc = "loaded"
          /\ req[p].st.setup_step = 2
          /\ req'[p].pc = "invoked")
         => LET text == req[p].st.messages[Len(req[p].st.messages)].content
                hasDigit == \E k \in 1..Len(text) : text[k] \in Digits
            IN  /\ req'[p].st.setup_step = 3
                /\ req'[p].st.user_profile[1].dependents =
                      IF hasDigit
                      THEN RunValue(text, FirstRun(text)[1], FirstRun(text)[2])
                      ELSE 0]_vars

\* the answer "a17" stored as 17 and the answer "-a-" stored as 0 would each
\* do; this is the first, saved with the step at 3
C25_Witness ==
    /\ "t1" \in DOMAIN db
    /\ db["t1"].setup_step = 3
    /\ db["t1"].messages[5].content = <<"a", "1", "7">>
    /\ db["t1"].user_profile[1].dependents = 17

----------------------------------------------------------------------------
(* Sync and balances *)

\* the (thread_id, name) rows of thread t in the accounts table
AccRowsOf(rows, t) == {k \in DOMAIN rows : k[1] = t}

\* C26: a sync merge never derives balances from transactions. Every sync of
\* SpecMerge carries transactions only or accounts only: a step that changes
\* the transaction history leaves every account record (in the state and in
\* the accounts table) as it was, and a step that changes an account record
\* leaves the history and the transactions table as they were.
C26_MergeKeepsBalances ==
    [][LET old == LoadOrCreate("t1", clock)
       IN  (clock' = clock) =>
             /\ db'["t1"].transactions # old.transactions =>
                   /\ db'["t1"].accounts = old.accounts
                   /\ accrows' = accrows
             /\ db'["t1"].accounts # old.accounts =>
                   /\ db'["t1"].transactions = old.transactions
                   /\ txrows' = txrows]_vars

\* two transactions of 30 from Cash to Food merged, Cash synced with balance
\* 40 and Food never synced: Cash is 40 and Food has no account
C26_Witness ==
    /\ "t1" \in DOMAIN db
    /\ Len(db["t1"].transactions) = 2
    /\ DOMAIN db["t1"].accounts = {Cash}
    /\ db["t1"].accounts[Cash].balance = 40
    /\ AccRowsOf(accrows, "t1") = {<<"t1", Cash>>}

----------------------------------------------------------------------------
(* Concurrent wizard turns *)

\* C27 as stated: chat turns on one thread do not interleave while setup is
\* incomplete, so the save of every wizard turn leaves the persisted wizard
\* one step and one answer further than the save found it.
C27_SetupTurnsSerialised ==
    [][\A p \in DOMAIN req :
         (SaveStep(p) /\ Len(req[p].st.messages) <= 2 * Len(SETUP_QUESTIONS))
         => LET t == req[p].thread
                before == LoadOrCreate(t, clock)
            IN  /\ db'[t].setup_step = before.setup_step + 1
                /\ UserCount(db'[t].messages) = UserCount(before.messages) + 1]_vars

----------------------------------------------------------------------------
(* The wizard as the entry points drive it *)

----------------------------------------------------------------------------
(* Model fallback *)

\* the attempts made are the first models of the list, in list order, and none
\* follows a success
InListOrder(call) ==
    /\ Len(call.attempts) <= 3
    /\ \A i \in 1..Len(call.attempts) :
          /\ i = 1 => call.attempts[i].model = "x-ai/grok-4.1-fast"
          /\ i = 2 => call.attempts[i].model = "anthropic/claude-3.5-sonnet"
          /\ i = 3 => call.attempts[i].model = "anthropic/claude-3-opus"
          /\ i < Len(call.attempts) => ~call.attempts[i].ok

\* what holds of a call_openrouter in flight or ended
FallbackState(call) ==
    /\ InListOrder(call)
    /\ call.pc = "calling" =>
          \A i \in 1..Len(call.attempts) : ~call.attempts[i].ok
    /\ call.pc = "returned" =>
          /\ call.attempts # <<>>
          /\ call.attempts[Len(call.attempts)].ok
          /\ call.response = call.attempts[Len(call.attempts)].model
    /\ call.pc = "raised" =>
          /\ Len(call.attempts) = 3
          /\ \A i \in 1..3 : ~call.attempts[i].ok

\* C29: call_openrouter tries the models in list order from index 0, returns
\* the response of the first model that succeeds without calling a later one,
\* raises only after exactly one failed attempt on each of the 3 models, every
\* step of a call adds at most one attempt, and every call ends, returned or
\* raised, whatever the models do.
C29_Fallback ==
    /\ [](\A p \in DOMAIN llm : FallbackState(llm[p]))
    /\ [][\A p \in DOMAIN llm :
            llm[p].pc = "calling" =>
               \/ llm'[p] = llm[p]
               \/ /\ llm'[p].pc = "raised"
                  /\ llm'[p].attempts = llm[p].attempts
               \/ /\ llm'[p].pc \in {"calling", "returned"}
                  /\ Len(llm'[p].attempts) = Len(llm[p].attempts) + 1
                  /\ SubSeq(llm'[p].attempts, 1, Len(llm[p].attempts)) = llm[p].attempts]_vars
    /\ \A p \in {"p1", "p2"} :
          (llm[p].pc = "calling") ~> (llm[p].pc \in {"returned", "raised"})

\* one call raised after the three models failed in turn while the other
\* returned the answer of the second model after the first failed
C29_Witness ==
    /\ llm["p1"].pc = "raised"
    /\ Len(llm["p1"].attempts) = 3
    /\ llm["p2"].pc = "returned"
    /\ Len(llm["p2"].attempts) = 2
    /\ llm["p2"].response = "anthropic/claude-3.5-sonnet"

----------------------------------------------------------------------------
(* The cached graph *)

\* C30 as stated: whatever the interleaving of the first requests, at most one
\* checkpoint connection is opened and at most one graph is compiled, and all
\* callers are given the same instance.
C30_SingleGraph ==
    /\ cache.connections <= 1
    /\ cache.graphs <= 1
    /\ \A p \in DOMAIN getter, q \in DOMAIN getter :
          (getter[p].pc = "done" /\ getter[q].pc = "done") =>
             getter[p].graph = getter[q].graph

====
